---- MODULE Spec2Model ----
(***************************************************************************)
(* State-transition engine of the Overpass channel front end: the DAGBOC   *)
(* cell store and its op codes, the STATEBOC snapshot with its hashing and *)
(* JSON serialization, and the StateContract that commits a merkle root    *)
(* and a nonce after every applied op code.                                *)
(*                                                                         *)
(* JavaScript arrays are 0-based; sequences here are 1-based, so the cell  *)
(* with JavaScript index i is dagCells[i + 1].                             *)
(***************************************************************************)
EXTENDS Integers, Sequences, FiniteSets, TLC

\* ------------------------------------------------------------------ bounds
MaxCells == 2
MaxRefs  == 1
MaxRoots == 1
MaxNonce == 3
MaxSnapLen == 1

\* Payloads the callers pass as cell contents (Uint8Array values).
PayloadA == <<1>>
PayloadB == <<2>>
Payloads == {PayloadA, PayloadB}

\* Indices the callers pass (from, to, index), in range or not.
CellIds == {0, 1, 2}

\* Op types of the vocabulary that processOpCode has no case for.
OtherOpTypes == {"Update", "SetLibraries", "SetVersion", "Custom"}

\* ----------------------------------------------------------------- values
Undefined == [t |-> "undefined"]

\* A Uint8Array with the bytes b, and a plain object whose properties
\* "0", "1", ... hold the values b (it has no length property).
U8(b)  == [t |-> "Uint8Array", b |-> b]
Obj(b) == [t |-> "Object", b |-> b]

\* The digest crypto.subtle.digest('SHA-256', data) returns, named by the
\* bytes it was computed from (SHA-256 taken as collision free), and the
\* all-zero array new Uint8Array(32), which is the digest of none of them.
Sha256(data) == [t |-> "sha256", data |-> data]
Zero32       == [t |-> "zero32"]

VARIABLES
    dagBoc,      \* the DAGBOC: dagCells, references, roots, hash, stateMapping
    ids,         \* ids[i]: the id addCell returned for the cell now at dagCells[i]
    lastCall,    \* the last call and its outcome: "ok" or the thrown message
    stateBoc,    \* StateContract.stateBoc: stateCells, references, roots, hashValue
    merkleRoot,  \* StateContract.merkleRoot
    nonce,       \* StateContract.nonce
    codec,       \* a snapshot taken through serialize, deserialize and computeHash
    pay,         \* a PaymentChannelContract: balances, nonce
    htlc,        \* an HTLCWrapper: its htlcState
    mgr,         \* a ChannelManager, its wasm channel and the calls in flight
    stm,         \* a StateTransitionManager: its currentState
    upd,         \* the StateContract.updateState calls in flight
    heap,        \* DAGBOC objects and the references the callers hold to them
    enc          \* two snapshots and the bytes computeHash hashes for each

vars == <<dagBoc, ids, lastCall, stateBoc, merkleRoot, nonce, codec, pay, htlc, mgr, stm,
          upd, heap, enc>>

\* The objects a run does not construct.
Unbuilt == [t |-> "unbuilt"]
extVars == <<pay, htlc, mgr, stm, upd, heap, enc>>

\* ------------------------------------------------------------ array helpers
\* Array.prototype.findIndex with arrayEquals: first 0-based index, or -1.
FindIndex(arr, x) ==
    IF \E i \in 1..Len(arr) : arr[i] = x
    THEN (CHOOSE i \in 1..Len(arr) :
              arr[i] = x /\ \A j \in 1..(i - 1) : arr[j] # x) - 1
    ELSE -1

\* Array.prototype.splice(i, 1) for an index 0 <= i < length.
Splice(arr, i) == SubSeq(arr, 1, i) \o SubSeq(arr, i + 2, Len(arr))

\* Truthiness of arr[i]: a Uint8Array is truthy, and arr[i] is undefined
\* outside 0..length-1.
Truthy(arr, i) == i >= 0 /\ i < Len(arr)

\* ------------------------------------------------------------------ DAGBOC
NewDAGBOC ==
    [dagCells |-> <<>>, references |-> <<>>, roots |-> <<>>,
     hash |-> Undefined, stateMapping |-> <<>>]

Ok(boc)         == [boc |-> boc, result |-> "ok"]
Throw(boc, msg) == [boc |-> boc, result |-> msg]

addCell(boc, cellData) == [boc EXCEPT !.dagCells = Append(@, cellData)]

OpAdd(boc, cell) == Ok(addCell(boc, cell))

OpSetCode(boc, code, newCode) ==
    LET codeIndex == FindIndex(boc.dagCells, code) IN
    IF codeIndex # -1
    THEN Ok([boc EXCEPT !.dagCells[codeIndex + 1] = newCode])
    ELSE Throw(boc, "Code not found")

\* OpSetData replacing every cell whose bytes equal the cell given.
OpSetDataAll(boc, cell, newData) ==
    IF FindIndex(boc.dagCells, cell) # -1
    THEN Ok([boc EXCEPT !.dagCells =
                 [i \in 1..Len(@) |-> IF @[i] = cell THEN newData ELSE @[i]]])
    ELSE Throw(boc, "Cell not found")

OpSetData(boc, cell, newData) ==
    LET cellIndex == FindIndex(boc.dagCells, cell) IN
    IF cellIndex # -1
    THEN Ok([boc EXCEPT !.dagCells[cellIndex + 1] = newData])
    ELSE Throw(boc, "Cell not found")

OpAddReference(boc, from, to) ==
    Ok([boc EXCEPT !.references = Append(@, <<from, to>>)])

\* OpSetRoot putting the new root in front of the earlier ones.
OpSetRootPrepend(boc, index) ==
    IF Truthy(boc.dagCells, index)
    THEN Ok([boc EXCEPT !.roots = <<boc.dagCells[index + 1]>> \o @])
    ELSE Throw(boc, "Index out of bounds")

OpSetRoot(boc, index) ==
    IF Truthy(boc.dagCells, index)
    THEN Ok([boc EXCEPT !.roots = Append(@, boc.dagCells[index + 1])])
    ELSE Throw(boc, "Index out of bounds")

\* OpRemove with the splice moved before the test of removeIndex:
\* splice(-1, 1) takes the last cell away, then the call throws.
OpRemoveSpliceFirst(boc, cell) ==
    LET removeIndex == FindIndex(boc.dagCells, cell) IN
    IF removeIndex # -1
    THEN Ok([boc EXCEPT !.dagCells = Splice(@, removeIndex)])
    ELSE Throw([boc EXCEPT !.dagCells = SubSeq(@, 1, Len(@) - 1)], "Cell not found")

OpRemove(boc, cell) ==
    LET removeIndex == FindIndex(boc.dagCells, cell) IN
    IF removeIndex # -1
    THEN Ok([boc EXCEPT !.dagCells = Splice(@, removeIndex)])
    ELSE Throw(boc, "Cell not found")

OpRemoveReference(boc, from, to) ==
    LET refIndex == FindIndex(boc.references, <<from, to>>) IN
    IF refIndex # -1
    THEN Ok([boc EXCEPT !.references = Splice(@, refIndex)])
    ELSE Throw(boc, "Reference not found")

processOpCode(boc, opCode) ==
    CASE opCode.type = "Add"             -> OpAdd(boc, opCode.cell)
      [] opCode.type = "SetCode"         -> OpSetCode(boc, opCode.code, opCode.newCode)
      [] opCode.type = "SetData"         -> OpSetData(boc, opCode.cell, opCode.newData)
      [] opCode.type = "AddReference"    -> OpAddReference(boc, opCode.from, opCode.to)
      [] opCode.type = "SetRoot"         -> OpSetRoot(boc, opCode.index)
      [] opCode.type = "Remove"          -> OpRemove(boc, opCode.cell)
      [] opCode.type = "RemoveReference" -> OpRemoveReference(boc, opCode.from, opCode.to)
      [] OTHER                           -> Throw(boc, "Unsupported operation")

\* The ids addCell has returned, kept beside the cells they were returned for:
\* Add returns the length before the push, Remove splices the cell away.
IdsAfter(boc, opCode) ==
    CASE opCode.type = "Add" -> Append(ids, Len(boc.dagCells))
      [] opCode.type = "Remove" /\ FindIndex(boc.dagCells, opCode.cell) # -1 ->
             Splice(ids, FindIndex(boc.dagCells, opCode.cell))
      [] OTHER -> ids

\* The bounds of the model on the sizes of the three arrays.
WithinBounds(boc, opCode) ==
    /\ opCode.type = "Add" => Len(boc.dagCells) < MaxCells
    /\ opCode.type = "AddReference" => Len(boc.references) < MaxRefs
    /\ opCode.type = "SetRoot" => Len(boc.roots) < MaxRoots

\* One processOpCode call on the store.
Process(opCode) ==
    LET r == processOpCode(dagBoc, opCode) IN
    /\ dagBoc' = r.boc
    /\ ids' = IdsAfter(dagBoc, opCode)
    /\ lastCall' = [op |-> opCode.type, result |-> r.result]
    /\ UNCHANGED <<stateBoc, merkleRoot, nonce, codec>>
    /\ UNCHANGED extVars

Add ==
    \E cell \in Payloads :
        LET opCode == [type |-> "Add", cell |-> cell] IN
        /\ WithinBounds(dagBoc, opCode)
        /\ Process(opCode)

SetCode ==
    \E code \in Payloads, newCode \in Payloads :
        LET opCode == [type |-> "SetCode", code |-> code, newCode |-> newCode] IN
        /\ WithinBounds(dagBoc, opCode)
        /\ Process(opCode)

SetData ==
    \E cell \in Payloads, newData \in Payloads :
        LET opCode == [type |-> "SetData", cell |-> cell, newData |-> newData] IN
        /\ WithinBounds(dagBoc, opCode)
        /\ Process(opCode)

AddReference ==
    \E from \in CellIds, to \in CellIds :
        LET opCode == [type |-> "AddReference", from |-> from, to |-> to] IN
        /\ WithinBounds(dagBoc, opCode)
        /\ Process(opCode)

SetRoot ==
    \E index \in CellIds :
        LET opCode == [type |-> "SetRoot", index |-> index] IN
        /\ WithinBounds(dagBoc, opCode)
        /\ Process(opCode)

Remove ==
    \E cell \in Payloads :
        LET opCode == [type |-> "Remove", cell |-> cell] IN
        /\ WithinBounds(dagBoc, opCode)
        /\ Process(opCode)

RemoveReference ==
    \E from \in CellIds, to \in CellIds :
        LET opCode == [type |-> "RemoveReference", from |-> from, to |-> to] IN
        /\ WithinBounds(dagBoc, opCode)
        /\ Process(opCode)

Unsupported ==
    \E t \in OtherOpTypes :
        LET opCode == [type |-> t] IN
        /\ WithinBounds(dagBoc, opCode)
        /\ Process(opCode)

\* ---------------------------------------------------------------- hashing
\* A number stored through Uint32Array (modulo 2^32) and then Uint8Array
\* (modulo 2^8): 2^8 divides 2^32, so what is left is the number modulo 2^8.
ToByte(n) == n % 256

RECURSIVE FlatMap(_)
FlatMap(arrs) ==
    IF arrs = <<>> THEN <<>> ELSE Head(arrs) \o FlatMap(Tail(arrs))

\* Array.from(v): the bytes of a Uint8Array, [] for an object without length.
ArrayFrom(v) == IF v.t = "Uint8Array" THEN v.b ELSE <<>>

\* reduce((acc, curr) => [...acc, ...Array.from(curr)], [])
ReduceBytes(arrs) == FlatMap([i \in 1..Len(arrs) |-> ArrayFrom(arrs[i])])

\* flatMap(([from, to]) => [...new Uint32Array([from, to])]) inside Uint8Array
ReferenceBytes(references) ==
    FlatMap([i \in 1..Len(references) |->
                <<ToByte(references[i][1]), ToByte(references[i][2])>>])

\* DAGBOC.computeHash keeping its result in the hash field, and reading the
\* field back into the data it hashes.
DAGBOC_computeHashCaching(boc) ==
    LET value == Sha256(FlatMap(boc.dagCells) \o ReferenceBytes(boc.references)
                        \o FlatMap(boc.roots)
                        \o (IF boc.hash = Undefined THEN <<>> ELSE boc.hash.b)) IN
    [obj |-> [boc EXCEPT !.hash = U8(<<Len(value.data)>>)], value |-> value]

\* DAGBOC.computeHash: the object after the call and the value returned.
DAGBOC_computeHash(boc) ==
    [obj |-> boc,
     value |-> Sha256(FlatMap(boc.dagCells) \o ReferenceBytes(boc.references)
                      \o FlatMap(boc.roots))]

\* ---------------------------------------------------------------- STATEBOC
NewSTATEBOC ==
    [stateCells |-> <<>>, references |-> <<>>, roots |-> <<>>, hashValue |-> Undefined]

setStateCells(sboc, stateCells) == [sboc EXCEPT !.stateCells = stateCells]

\* STATEBOC.computeHash: the object after the call and the value returned.
STATEBOC_computeHash(sboc) ==
    [obj |-> sboc,
     value |-> Sha256(ReduceBytes(sboc.stateCells) \o ReduceBytes(sboc.references)
                      \o ReduceBytes(sboc.roots))]

\* DAGBOC.getStateCells: a copy of the array of the cells (Uint8Arrays).
getStateCells(boc) == [i \in 1..Len(boc.dagCells) |-> U8(boc.dagCells[i])]

\* ----------------------------------------------------------- StateContract
\* What operation.intoSerde() yields when the operation cannot be decoded.
NullOp == [type |-> "null"]

OpCodes ==
    {[type |-> "Add", cell |-> c] : c \in Payloads}
    \cup {[type |-> "SetCode", code |-> c, newCode |-> d] : c \in Payloads, d \in Payloads}
    \cup {[type |-> "SetData", cell |-> c, newData |-> d] : c \in Payloads, d \in Payloads}
    \cup {[type |-> "AddReference", from |-> f, to |-> t] : f \in CellIds, t \in CellIds}
    \cup {[type |-> "SetRoot", index |-> i] : i \in CellIds}
    \cup {[type |-> "Remove", cell |-> c] : c \in Payloads}
    \cup {[type |-> "RemoveReference", from |-> f, to |-> t] : f \in CellIds, t \in CellIds}
    \cup {[type |-> t] : t \in OtherOpTypes}

\* updateState with the nonce raised before the op code is processed.
updateStateNonceFirst(sc, opCode) ==
    IF opCode = NullOp
    THEN [sc |-> sc, result |-> "Failed to deserialize operation"]
    ELSE LET counted == [sc EXCEPT !.nonce = @ + 1]
             r == processOpCode(sc.dagBoc, opCode) IN
         IF r.result # "ok"
         THEN [sc |-> counted, result |-> r.result]
         ELSE LET cells == getStateCells(r.boc)
                  sboc  == setStateCells(sc.stateBoc, cells)
                  h     == STATEBOC_computeHash(sboc) IN
              [sc |-> [dagBoc |-> r.boc, stateBoc |-> h.obj,
                       merkleRoot |-> h.value, nonce |-> counted.nonce],
               result |-> "ok"]

\* StateContract.updateState(operation) on the contract sc = [dagBoc,
\* stateBoc, merkleRoot, nonce]: the contract it leaves and what it returns.
updateState(sc, opCode) ==
    IF opCode = NullOp
    THEN [sc |-> sc, result |-> "Failed to deserialize operation"]
    ELSE LET r == processOpCode(sc.dagBoc, opCode) IN
         IF r.result # "ok"
         THEN [sc |-> sc, result |-> r.result]
         ELSE LET cells == getStateCells(r.boc)
                  sboc  == setStateCells(sc.stateBoc, cells)
                  h     == STATEBOC_computeHash(sboc) IN
              [sc |-> [dagBoc |-> r.boc, stateBoc |-> h.obj,
                       merkleRoot |-> h.value, nonce |-> sc.nonce + 1],
               result |-> "ok"]

\* StateContract.updateState, one whole call (calls do not overlap).
UpdateState ==
    \E opCode \in OpCodes \cup {NullOp} :
        /\ nonce < MaxNonce
        /\ WithinBounds(dagBoc, opCode)
        /\ LET r == updateState([dagBoc |-> dagBoc, stateBoc |-> stateBoc,
                                 merkleRoot |-> merkleRoot, nonce |-> nonce],
                                opCode) IN
           /\ dagBoc' = r.sc.dagBoc
           /\ ids' = IF r.result = "ok" THEN IdsAfter(dagBoc, opCode) ELSE ids
           /\ stateBoc' = r.sc.stateBoc
           /\ merkleRoot' = r.sc.merkleRoot
           /\ nonce' = r.sc.nonce
           /\ lastCall' = [op |-> "updateState", result |-> r.result]
        /\ UNCHANGED codec
        /\ UNCHANGED extVars

\* ---------------------------------------------------- JSON serialization
\* JSON.stringify then JSON.parse of a value: a Uint8Array is written as the
\* object {"0": b0, "1": b1, ...} and read back as a plain object; an
\* undefined property is left out and reads back as undefined.
JsonRoundTrip(v) == IF v.t = "Uint8Array" THEN Obj(v.b) ELSE v

JsonArray(arr) == [i \in 1..Len(arr) |-> JsonRoundTrip(arr[i])]

\* new Uint8Array(v) for a parsed value: a plain object has no length, so
\* the array is empty.
NewUint8Array(v) == IF v.t = "Uint8Array" THEN v.b ELSE <<>>

IsTruthy(v) == v # Undefined

\* STATEBOC.serializeToVec: the JSON value the bytes carry.
STATEBOC_serializeToVec(sboc) ==
    [stateCells |-> JsonArray(sboc.stateCells),
     references |-> JsonArray(sboc.references),
     roots      |-> JsonArray(sboc.roots),
     hash       |-> JsonRoundTrip(sboc.hashValue)]

\* STATEBOC.deserialize
STATEBOC_deserialize(parsed) ==
    [stateCells |-> parsed.stateCells,
     references |-> parsed.references,
     roots      |-> parsed.roots,
     hashValue  |-> IF IsTruthy(parsed.hash) THEN parsed.hash ELSE Undefined]

\* DAGBOC.serialize: the JSON value the bytes carry (numbers are kept).
DAGBOC_serialize(boc) ==
    [dagCells     |-> [i \in 1..Len(boc.dagCells) |-> JsonRoundTrip(U8(boc.dagCells[i]))],
     references   |-> boc.references,
     roots        |-> [i \in 1..Len(boc.roots) |-> JsonRoundTrip(U8(boc.roots[i]))],
     hash         |-> JsonRoundTrip(boc.hash),
     stateMapping |-> [i \in 1..Len(boc.stateMapping) |->
                          <<JsonRoundTrip(U8(boc.stateMapping[i][1])),
                            boc.stateMapping[i][2]>>]]

\* DAGBOC.deserialize
DAGBOC_deserialize(obj) ==
    [dagCells     |-> [i \in 1..Len(obj.dagCells) |-> NewUint8Array(obj.dagCells[i])],
     references   |-> obj.references,
     roots        |-> [i \in 1..Len(obj.roots) |-> NewUint8Array(obj.roots[i])],
     hash         |-> IF IsTruthy(obj.hash) THEN U8(NewUint8Array(obj.hash)) ELSE Undefined,
     stateMapping |-> [i \in 1..Len(obj.stateMapping) |->
                          <<NewUint8Array(obj.stateMapping[i][1]),
                            obj.stateMapping[i][2]>>]]

\* ------------------------------------------------ StateContract.verifyState
\* What the stateBytes passed to verifyState decode to: text that is not
\* JSON, the JSON value null, the JSON object {} (no stateCells, references
\* or roots), or the serialization of a snapshot.
WireText        == [t |-> "text"]
WireNull        == [t |-> "null"]
WireEmptyObject == [t |-> "emptyObject"]
WireSnapshot(sboc) == [t |-> "snapshot", v |-> STATEBOC_serializeToVec(sboc)]

ReduceOfUndefined == "TypeError: Cannot read properties of undefined (reading 'reduce')"

\* verifyState(stateBytes) on the contract sc: the contract it leaves and
\* the Result it returns or the error it throws.  JSON.parse throws on text
\* and parsed.stateCells throws on null, both inside deserialize's try; {}
\* deserializes to a STATEBOC whose three arrays are undefined, and its
\* computeHash, awaited outside verifyState's try, throws.
verifyState(sc, wire) ==
    IF wire.t \in {"text", "null"}
    THEN [sc |-> sc, result |-> "Err(false)"]
    ELSE IF wire.t = "emptyObject"
    THEN [sc |-> [sc EXCEPT !.stateBoc = STATEBOC_computeHash(sc.stateBoc).obj],
          result |-> ReduceOfUndefined]
    ELSE LET submittedState == STATEBOC_deserialize(wire.v)
             currentHash    == STATEBOC_computeHash(sc.stateBoc)
             submittedHash  == STATEBOC_computeHash(submittedState) IN
         [sc |-> [sc EXCEPT !.stateBoc = currentHash.obj],
          result |-> IF currentHash.value = submittedHash.value
                     THEN "Ok(true)" ELSE "Ok(false)"]

\* StateContract.verifyState, one whole call.
VerifyState ==
    \E wire \in {WireText, WireNull, WireEmptyObject,
                  WireSnapshot(stateBoc), WireSnapshot(NewSTATEBOC)} :
        /\ LET r == verifyState([dagBoc |-> dagBoc, stateBoc |-> stateBoc,
                                 merkleRoot |-> merkleRoot, nonce |-> nonce],
                                wire) IN
           /\ dagBoc' = r.sc.dagBoc
           /\ stateBoc' = r.sc.stateBoc
           /\ merkleRoot' = r.sc.merkleRoot
           /\ nonce' = r.sc.nonce
           /\ lastCall' = [op |-> "verifyState", input |-> wire.t,
                           result |-> r.result]
        /\ UNCHANGED <<ids, codec>>
        /\ UNCHANGED extVars

\* ------------------------------------------------- snapshots on the wire
SeqsUpTo(S, n) == UNION {[1..k -> S] : k \in 0..n}

SnapPayloads == {<<>>, PayloadA, PayloadB}
SnapHashes   == {Undefined, U8(PayloadB)}

StateSnapshots ==
    [stateCells : SeqsUpTo({U8(b) : b \in SnapPayloads}, MaxSnapLen),
     references : SeqsUpTo({U8(b) : b \in SnapPayloads}, MaxSnapLen),
     roots      : SeqsUpTo({U8(b) : b \in SnapPayloads}, MaxSnapLen),
     hashValue  : SnapHashes]

DagSnapshots ==
    [dagCells     : SeqsUpTo(SnapPayloads, MaxSnapLen),
     references   : SeqsUpTo({<<0, 0>>, <<0, 1>>}, MaxSnapLen),
     roots        : SeqsUpTo(SnapPayloads, MaxSnapLen),
     hash         : SnapHashes,
     stateMapping : SeqsUpTo({<<PayloadA, 0>>}, MaxSnapLen)]

\* codec.snap is the snapshot s, codec.wire what serialize made of it,
\* codec.out what deserialize made of that; hashSnap and hashOut are the
\* values computeHash last returned for s and for the deserialized snapshot.
InitCodec ==
    /\ dagBoc = NewDAGBOC
    /\ ids = <<>>
    /\ lastCall = [op |-> "new", result |-> "ok"]
    /\ stateBoc = NewSTATEBOC
    /\ merkleRoot = Zero32
    /\ nonce = 0
    /\ upd = Unbuilt /\ heap = Unbuilt /\ enc = Unbuilt
    /\ stm = Unbuilt
    /\ pay = Unbuilt /\ htlc = Unbuilt /\ mgr = Unbuilt
    /\ \E kind \in {"STATEBOC", "DAGBOC"} :
         \E s \in (IF kind = "STATEBOC" THEN StateSnapshots ELSE DagSnapshots) :
            codec = [pc |-> "new", kind |-> kind, snap |-> s, wire |-> Undefined,
                     out |-> Undefined, hashSnap |-> Undefined, hashOut |-> Undefined]

SerializeToVec ==
    /\ codec.pc = "new" /\ codec.kind = "STATEBOC"
    /\ codec' = [codec EXCEPT !.pc = "serialized",
                              !.wire = STATEBOC_serializeToVec(codec.snap)]
    /\ UNCHANGED <<dagBoc, ids, lastCall, stateBoc, merkleRoot, nonce>>
    /\ UNCHANGED extVars

StateDeserialize ==
    /\ codec.pc = "serialized" /\ codec.kind = "STATEBOC"
    /\ codec' = [codec EXCEPT !.pc = "deserialized",
                              !.out = STATEBOC_deserialize(codec.wire)]
    /\ UNCHANGED <<dagBoc, ids, lastCall, stateBoc, merkleRoot, nonce>>
    /\ UNCHANGED extVars

DagSerialize ==
    /\ codec.pc = "new" /\ codec.kind = "DAGBOC"
    /\ codec' = [codec EXCEPT !.pc = "serialized",
                              !.wire = DAGBOC_serialize(codec.snap)]
    /\ UNCHANGED <<dagBoc, ids, lastCall, stateBoc, merkleRoot, nonce>>
    /\ UNCHANGED extVars

DagDeserialize ==
    /\ codec.pc = "serialized" /\ codec.kind = "DAGBOC"
    /\ codec' = [codec EXCEPT !.pc = "deserialized",
                              !.out = DAGBOC_deserialize(codec.wire)]
    /\ UNCHANGED <<dagBoc, ids, lastCall, stateBoc, merkleRoot, nonce>>
    /\ UNCHANGED extVars

computeHash(kind, s) ==
    IF kind = "STATEBOC" THEN STATEBOC_computeHash(s) ELSE DAGBOC_computeHash(s)

\* computeHash called on the snapshot s.
ComputeHashSnap ==
    /\ codec.pc # "idle"
    /\ LET h == computeHash(codec.kind, codec.snap) IN
       codec' = [codec EXCEPT !.snap = h.obj, !.hashSnap = h.value]
    /\ UNCHANGED <<dagBoc, ids, lastCall, stateBoc, merkleRoot, nonce>>
    /\ UNCHANGED extVars

\* computeHash called on the deserialized snapshot.
ComputeHashOut ==
    /\ codec.pc = "deserialized"
    /\ LET h == computeHash(codec.kind, codec.out) IN
       codec' = [codec EXCEPT !.out = h.obj, !.hashOut = h.value]
    /\ UNCHANGED <<dagBoc, ids, lastCall, stateBoc, merkleRoot, nonce>>
    /\ UNCHANGED extVars

NextCodec ==
    \/ SerializeToVec
    \/ StateDeserialize
    \/ DagSerialize
    \/ DagDeserialize
    \/ ComputeHashSnap
    \/ ComputeHashOut

SpecCodec == InitCodec /\ [][NextCodec]_vars

\* ----------------------------------------------------------- specification
Idle == [pc |-> "idle"]

Init ==
    /\ dagBoc = NewDAGBOC
    /\ ids = <<>>
    /\ lastCall = [op |-> "new", result |-> "ok"]
    /\ stateBoc = NewSTATEBOC
    /\ merkleRoot = Zero32
    /\ nonce = 0
    /\ upd = Unbuilt /\ heap = Unbuilt /\ enc = Unbuilt
    /\ stm = Unbuilt
    /\ pay = Unbuilt /\ htlc = Unbuilt /\ mgr = Unbuilt
    /\ codec = Idle

Next ==
    \/ Add
    \/ SetCode
    \/ SetData
    \/ AddReference
    \/ SetRoot
    \/ Remove
    \/ RemoveReference
    \/ Unsupported

Spec == Init /\ [][Next]_vars

\* The StateContract driven by sequential updateState and verifyState calls.
NextContract ==
    \/ UpdateState
    \/ VerifyState

SpecContract == Init /\ [][NextContract]_vars

\* ------------------------------------------------- PaymentChannelContract
\* Participant indices and amounts the callers pass; -1 and 2 lie outside
\* the two-element balances array, on either side.
PayIndices == {-1, 0, 1, 2}
Deposits   == {1, 2}
Amounts    == {0, 1, 5}

TypeError == "TypeError: Cannot mix BigInt and other types"

\* The constructor: one deposit parameter, given to both participants.
NewPaymentChannel(deposit) ==
    [balances |-> <<deposit, deposit>>, nonce |-> 0]

\* this.balances[i]: an element for i in 0..1, undefined for any other i.
HasBalance(i) == i \in {0, 1}

\* transfer with the nonce incremented before the balance check.
transferNonceFirst(c, from, to, amount) ==
    IF from >= 2 \/ to >= 2
    THEN [c |-> c, result |-> "Invalid participant index"]
    ELSE IF HasBalance(from) /\ c.balances[from + 1] < amount
    THEN [c |-> [c EXCEPT !.nonce = @ + 1], result |-> "Insufficient balance"]
    ELSE IF ~HasBalance(from)
    THEN [c |-> c, result |-> TypeError]
    ELSE LET debited == [c EXCEPT !.balances[from + 1] = @ - amount] IN
         IF ~HasBalance(to)
         THEN [c |-> debited, result |-> TypeError]
         ELSE [c |-> [debited EXCEPT !.balances[to + 1] = @ + amount,
                                     !.nonce = @ + 1],
               result |-> "ok"]

\* transfer with the balance check reading the receiver's balance.
transferChecksReceiver(c, from, to, amount) ==
    IF from >= 2 \/ to >= 2
    THEN [c |-> c, result |-> "Invalid participant index"]
    ELSE IF HasBalance(to) /\ c.balances[to + 1] < amount
    THEN [c |-> c, result |-> "Insufficient balance"]
    ELSE IF ~HasBalance(from)
    THEN [c |-> c, result |-> TypeError]
    ELSE LET debited == [c EXCEPT !.balances[from + 1] = @ - amount] IN
         IF ~HasBalance(to)
         THEN [c |-> debited, result |-> TypeError]
         ELSE [c |-> [debited EXCEPT !.balances[to + 1] = @ + amount,
                                     !.nonce = @ + 1],
               result |-> "ok"]

\* transfer(from, to, amount) on the channel c: the channel it leaves and the
\* error it returns, "ok", or the TypeError it throws.  undefined < amount is
\* false, and undefined - amount and undefined + amount throw; the debit of
\* from is already stored when the credit of to throws.
transfer(c, from, to, amount) ==
    IF from >= 2 \/ to >= 2
    THEN [c |-> c, result |-> "Invalid participant index"]
    ELSE IF HasBalance(from) /\ c.balances[from + 1] < amount
    THEN [c |-> c, result |-> "Insufficient balance"]
    ELSE IF ~HasBalance(from)
    THEN [c |-> c, result |-> TypeError]
    ELSE LET debited == [c EXCEPT !.balances[from + 1] = @ - amount] IN
         IF ~HasBalance(to)
         THEN [c |-> debited, result |-> TypeError]
         ELSE [c |-> [debited EXCEPT !.balances[to + 1] = @ + amount,
                                     !.nonce = @ + 1],
               result |-> "ok"]

\* settle(): returns success and stores nothing.
settle(c) == [c |-> c, result |-> "ok"]

\* pay.c is the contract.  The other fields are history: the deposits the
\* channel was opened with, whether settle() has returned success, the number
\* of transfers that returned success, and the contract before the last call.
\* A constructor call passing two deposits binds the first to the deposit
\* parameter and drops the second.
InitPayment ==
    /\ dagBoc = NewDAGBOC
    /\ ids = <<>>
    /\ stateBoc = NewSTATEBOC
    /\ merkleRoot = Zero32
    /\ nonce = 0
    /\ upd = Unbuilt /\ heap = Unbuilt /\ enc = Unbuilt
    /\ stm = Unbuilt
    /\ codec = Idle
    /\ htlc = Unbuilt /\ mgr = Unbuilt
    /\ \E depositA \in Deposits, depositB \in Deposits :
          /\ pay = [c |-> NewPaymentChannel(depositA),
                    deposits |-> <<depositA, depositB>>,
                    settled |-> FALSE, successes |-> 0,
                    before |-> NewPaymentChannel(depositA)]
          /\ lastCall = [op |-> "open", result |-> "ok"]

Transfer ==
    \E from \in PayIndices, to \in PayIndices, amount \in Amounts :
        /\ pay.c.nonce < MaxNonce
        /\ LET r == transfer(pay.c, from, to, amount) IN
           /\ pay' = [pay EXCEPT !.c = r.c, !.before = pay.c,
                                 !.successes = IF r.result = "ok" THEN @ + 1 ELSE @]
           /\ lastCall' = [op |-> "transfer", from |-> from, to |-> to,
                           amount |-> amount, result |-> r.result]
        /\ UNCHANGED <<dagBoc, ids, stateBoc, merkleRoot, nonce, codec, upd, heap, enc, htlc, mgr, stm>>

Settle ==
    /\ LET r == settle(pay.c) IN
       /\ pay' = [pay EXCEPT !.c = r.c, !.before = pay.c, !.settled = TRUE]
       /\ lastCall' = [op |-> "settle", result |-> r.result]
    /\ UNCHANGED <<dagBoc, ids, stateBoc, merkleRoot, nonce, codec, upd, heap, enc, htlc, mgr, stm>>

NextPayment ==
    \/ Transfer
    \/ Settle

SpecPayment == InitPayment /\ [][NextPayment]_vars

\* ------------------------------------------------------------ HTLCWrapper
\* Time locks range over 0..MaxTime and the clock over 0..MaxTime + 1.
MaxTime == 2
HtlcAmounts == {1, 2}
Preimages   == Payloads

AlreadyResolved == "HTLC already claimed or refunded"

\* The constructor; sender and recipient are stored and never read.
NewHTLC(hashLock, timeLock, amount) ==
    [hashLock |-> hashLock, timeLock |-> timeLock, amount |-> amount,
     sender |-> "sender", recipient |-> "recipient",
     claimed |-> FALSE, refunded |-> FALSE]

\* verifyHash() is an async function: the call returns a Promise of the
\* comparison, an object, whatever the comparison will give.
verifyHash(h, preimage) ==
    [t |-> "Promise", value |-> (Sha256(preimage) = h.hashLock)]

\* claim setting refunded where it is to set claimed.
claimMarksRefunded(h, preimage) ==
    IF ~IsTruthy(verifyHash(h, preimage))
    THEN [h |-> h, result |-> "Invalid preimage"]
    ELSE IF h.claimed \/ h.refunded
    THEN [h |-> h, result |-> AlreadyResolved]
    ELSE [h |-> [h EXCEPT !.refunded = TRUE], result |-> "ok"]

\* claim(preimage): the HTLC it leaves and "ok" or the message it throws.
claim(h, preimage) ==
    IF ~IsTruthy(verifyHash(h, preimage))
    THEN [h |-> h, result |-> "Invalid preimage"]
    ELSE IF h.claimed \/ h.refunded
    THEN [h |-> h, result |-> AlreadyResolved]
    ELSE [h |-> [h EXCEPT !.claimed = TRUE], result |-> "ok"]

\* refund with the time-lock test letting currentTime = timeLock through.
refundAtTimeLock(h, currentTime) ==
    IF currentTime < h.timeLock
    THEN [h |-> h, result |-> "Time lock not expired"]
    ELSE IF h.claimed \/ h.refunded
    THEN [h |-> h, result |-> AlreadyResolved]
    ELSE [h |-> [h EXCEPT !.refunded = TRUE], result |-> "ok"]

\* refund testing only the refunded flag of the resolved state.
refundIgnoresClaimed(h, currentTime) ==
    IF currentTime <= h.timeLock
    THEN [h |-> h, result |-> "Time lock not expired"]
    ELSE IF h.refunded
    THEN [h |-> h, result |-> AlreadyResolved]
    ELSE [h |-> [h EXCEPT !.refunded = TRUE], result |-> "ok"]

\* refund with the resolved test ahead of the time-lock test.
refundResolvedFirst(h, currentTime) ==
    IF h.claimed \/ h.refunded
    THEN [h |-> h, result |-> AlreadyResolved]
    ELSE IF currentTime <= h.timeLock
    THEN [h |-> h, result |-> "Time lock not expired"]
    ELSE [h |-> [h EXCEPT !.refunded = TRUE], result |-> "ok"]

\* refund(currentTime): the HTLC it leaves and "ok" or the message it throws.
refund(h, currentTime) ==
    IF currentTime <= h.timeLock
    THEN [h |-> h, result |-> "Time lock not expired"]
    ELSE IF h.claimed \/ h.refunded
    THEN [h |-> h, result |-> AlreadyResolved]
    ELSE [h |-> [h EXCEPT !.refunded = TRUE], result |-> "ok"]

\* htlc.h is the htlcState.  The other fields are history: the htlcState
\* before the last call, and whether some claim call so far presented a
\* preimage whose SHA-256 is the hash lock; htlc.now is the clock of the
\* callers, which claim never reads.
InitHtlc ==
    /\ dagBoc = NewDAGBOC
    /\ ids = <<>>
    /\ stateBoc = NewSTATEBOC
    /\ merkleRoot = Zero32
    /\ nonce = 0
    /\ upd = Unbuilt /\ heap = Unbuilt /\ enc = Unbuilt
    /\ stm = Unbuilt
    /\ codec = Idle
    /\ pay = Unbuilt /\ mgr = Unbuilt
    /\ lastCall = [op |-> "new", result |-> "ok"]
    /\ \E secret \in Preimages, timeLock \in 0..MaxTime, amount \in HtlcAmounts :
          LET h == NewHTLC(Sha256(secret), timeLock, amount) IN
          htlc = [h |-> h, before |-> h, correctSeen |-> FALSE, now |-> 0]

Claim ==
    \E preimage \in Preimages :
        /\ LET r == claim(htlc.h, preimage) IN
           /\ htlc' = [h |-> r.h, before |-> htlc.h,
                       correctSeen |-> (htlc.correctSeen
                                        \/ Sha256(preimage) = htlc.h.hashLock),
                       now |-> htlc.now]
           /\ lastCall' = [op |-> "claim", preimage |-> preimage,
                           at |-> htlc.now, result |-> r.result]
        /\ UNCHANGED <<dagBoc, ids, stateBoc, merkleRoot, nonce, codec, upd, heap, enc, pay, mgr, stm>>

Refund ==
    \E currentTime \in 0..(MaxTime + 1) :
        /\ LET r == refund(htlc.h, currentTime) IN
           /\ htlc' = [htlc EXCEPT !.h = r.h, !.before = htlc.h]
           /\ lastCall' = [op |-> "refund", currentTime |-> currentTime,
                           result |-> r.result]
        /\ UNCHANGED <<dagBoc, ids, stateBoc, merkleRoot, nonce, codec, upd, heap, enc, pay, mgr, stm>>

\* Time passes between the calls.
Tick ==
    /\ htlc.now <= MaxTime
    /\ htlc' = [htlc EXCEPT !.now = @ + 1]
    /\ UNCHANGED <<dagBoc, ids, lastCall, stateBoc, merkleRoot, nonce, codec, upd, heap, enc, pay, mgr, stm>>

NextHtlc ==
    \/ Claim
    \/ Refund
    \/ Tick

SpecHtlc == InitHtlc /\ [][NextHtlc]_vars

\* --------------------------------------------------------- ChannelManager
\* MaxUpdates caps the updates one wasm channel takes, MaxChannels the
\* initialize calls that get past the initialized test.
MaxUpdates  == 2
MaxChannels == 2
Calls == {1, 2}

Null == [t |-> "null"]
NotInitialized == "Channel not initialized"
VerificationFailed == "Transaction verification failed"

\* The wasm Channel behind the manager.  Its state is the number of updates
\* applied to it; update_state applies one and resolves to the new root,
\* finalize_state resolves to a proof of the current state, verify_state to
\* either boolean.
NewChannel == [applied |-> 0]
RootOf(ch) == [t |-> "root", of |-> ch.applied]
update_state(ch) ==
    LET next == [ch EXCEPT !.applied = @ + 1] IN
    [ch |-> next, root |-> RootOf(next)]
finalize_state(ch) == [t |-> "proof", of |-> ch.applied]
verify_state(ch, stateBytes) == BOOLEAN

\* A processTransaction call that is not running.
NoCall == [pc |-> "idle"]
InFlight(p) == mgr.calls[p].pc # "idle"

\* The manager after construction: channel = null, initialized = false.
\* The other fields describe the calls, not the object: constructed
\* (channels built so far), built (channels built since the last destroy
\* that freed one), initPending (initialize calls suspended at await
\* init()), reported (the nonce the last successful updateState on this
\* channel reported, if any) and verifying (a verifyFinalState call is
\* suspended at await this.getCurrentState()).
NewChannelManager ==
    [channel |-> Null, initialized |-> FALSE, constructed |-> 0, built |-> 0,
     initPending |-> 0, calls |-> [p \in Calls |-> NoCall],
     reported |-> <<>>, verifying |-> FALSE]

InitManager ==
    /\ dagBoc = NewDAGBOC
    /\ ids = <<>>
    /\ stateBoc = NewSTATEBOC
    /\ merkleRoot = Zero32
    /\ nonce = 0
    /\ upd = Unbuilt /\ heap = Unbuilt /\ enc = Unbuilt
    /\ stm = Unbuilt
    /\ codec = Idle
    /\ pay = Unbuilt /\ htlc = Unbuilt
    /\ lastCall = [op |-> "new", result |-> "ok"]
    /\ mgr = NewChannelManager

\* initialize, up to await init(): the initialized test.
Initialize ==
    /\ mgr.constructed + mgr.initPending < MaxChannels
    /\ IF ~mgr.initialized
       THEN /\ mgr' = [mgr EXCEPT !.initPending = @ + 1]
            /\ UNCHANGED lastCall
       ELSE /\ lastCall' = [op |-> "initialize", result |-> "null"]
            /\ UNCHANGED mgr
    /\ UNCHANGED <<dagBoc, ids, stateBoc, merkleRoot, nonce, codec, upd, heap, enc, pay, htlc, stm>>

\* initialize, after await init(): the channel is constructed and stored,
\* and getStateSize reads it.
InitializeResume ==
    /\ mgr.initPending > 0
    /\ mgr' = [mgr EXCEPT !.channel = NewChannel, !.initialized = TRUE,
                          !.constructed = @ + 1, !.built = @ + 1,
                          !.initPending = @ - 1, !.reported = <<>>]
    /\ lastCall' = [op |-> "initialize", result |-> "ok"]
    /\ UNCHANGED <<dagBoc, ids, stateBoc, merkleRoot, nonce, codec, upd, heap, enc, pay, htlc, stm>>

Destroy ==
    /\ IF mgr.channel # Null
       THEN mgr' = [mgr EXCEPT !.channel = Null, !.initialized = FALSE,
                               !.built = 0, !.reported = <<>>]
       ELSE UNCHANGED mgr
    /\ lastCall' = [op |-> "destroy", result |-> "ok"]
    /\ UNCHANGED <<dagBoc, ids, stateBoc, merkleRoot, nonce, codec, upd, heap, enc, pay, htlc, stm>>

\* A step of call p finds this.channel null and throws; the call ends.
ThrowNotInitialized(p) ==
    /\ mgr' = [mgr EXCEPT !.calls[p] = NoCall]
    /\ lastCall' = [op |-> "processTransaction", call |-> p,
                    result |-> NotInitialized]

\* processTransaction up to its first suspension: the channel test, then
\* updateState up to await this.channel.update_state(amount, data).
ProcessTransaction ==
    \E p \in Calls :
        /\ ~InFlight(p)
        /\ IF mgr.channel = Null
           THEN ThrowNotInitialized(p)
           ELSE /\ mgr.channel.applied < MaxUpdates
                /\ LET r == update_state(mgr.channel) IN
                   mgr' = [mgr EXCEPT !.channel = r.ch,
                                      !.calls[p] = [pc |-> "updated",
                                                    before |-> mgr.channel,
                                                    root |-> r.root]]
                /\ UNCHANGED lastCall
        /\ UNCHANGED <<dagBoc, ids, stateBoc, merkleRoot, nonce, codec, upd, heap, enc, pay, htlc, stm>>

\* updateState resumed: getStateSize, up to await get_current_state().
StateSize ==
    \E p \in Calls :
        /\ mgr.calls[p].pc = "updated"
        /\ IF mgr.channel = Null
           THEN ThrowNotInitialized(p)
           ELSE /\ mgr' = [mgr EXCEPT !.calls[p].pc = "sized"]
                /\ UNCHANGED lastCall
        /\ UNCHANGED <<dagBoc, ids, stateBoc, merkleRoot, nonce, codec, upd, heap, enc, pay, htlc, stm>>

\* processTransaction resumed: generateProof, up to await finalize_state().
GenerateProof ==
    \E p \in Calls :
        /\ mgr.calls[p].pc = "sized"
        /\ IF mgr.channel = Null
           THEN ThrowNotInitialized(p)
           ELSE /\ mgr' = [mgr EXCEPT !.calls[p] =
                             [pc |-> "proved", before |-> @.before, root |-> @.root,
                              proof |-> finalize_state(mgr.channel)]]
                /\ UNCHANGED lastCall
        /\ UNCHANGED <<dagBoc, ids, stateBoc, merkleRoot, nonce, codec, upd, heap, enc, pay, htlc, stm>>

\* processTransaction resumed: verifyProof(state.merkle_root), up to the
\* answer of verify_state.
VerifyProof ==
    \E p \in Calls :
        /\ mgr.calls[p].pc = "proved"
        /\ IF mgr.channel = Null
           THEN ThrowNotInitialized(p)
           ELSE /\ \E verified \in verify_state(mgr.channel, mgr.calls[p].root) :
                     mgr' = [mgr EXCEPT !.calls[p] =
                              [pc |-> "verified", before |-> @.before,
                               root |-> @.root, proof |-> @.proof,
                               verified |-> verified]]
                /\ UNCHANGED lastCall
        /\ UNCHANGED <<dagBoc, ids, stateBoc, merkleRoot, nonce, codec, upd, heap, enc, pay, htlc, stm>>

\* processTransaction resumed with the answer: throw or return the result.
Decide ==
    \E p \in Calls :
        /\ mgr.calls[p].pc = "verified"
        /\ mgr' = [mgr EXCEPT !.calls[p] = NoCall]
        /\ lastCall' = [op |-> "processTransaction", call |-> p,
                        before |-> mgr.calls[p].before,
                        result |-> IF mgr.calls[p].verified
                                   THEN "ok" ELSE VerificationFailed]
        /\ UNCHANGED <<dagBoc, ids, stateBoc, merkleRoot, nonce, codec, upd, heap, enc, pay, htlc, stm>>

NextManager ==
    \/ Initialize
    \/ InitializeResume
    \/ Destroy
    \/ ProcessTransaction
    \/ StateSize
    \/ GenerateProof
    \/ VerifyProof
    \/ Decide

SpecManager == InitManager /\ [][NextManager]_vars

\* ------------------------------- ChannelManager, the methods called alone
\* The amounts the callers pass to updateState.
MgrAmounts == {1, 5}
NullTypeError == "TypeError: Cannot read properties of null"

\* What a method leaves in lastCall: whether this.channel was null when the
\* call (or its last step) ran, whether a method of the channel was invoked,
\* and what the call returned or threw.
Outcome(op, channelNull, invoked, result) ==
    [op |-> op, channelNull |-> channelNull, invoked |-> invoked, result |-> result]

GetCurrentState ==
    /\ lastCall' = IF mgr.channel = Null
                   THEN Outcome("getCurrentState", TRUE, FALSE, NotInitialized)
                   ELSE Outcome("getCurrentState", FALSE, TRUE, "state")
    /\ UNCHANGED mgr
    /\ UNCHANGED <<dagBoc, ids, stateBoc, merkleRoot, nonce, codec, upd, heap, enc, pay, htlc, stm>>

\* updateState(amount, data), one whole call: update_state, getStateSize,
\* and the StateUpdate returned, whose nonce and balance are the amount.
ManagerUpdateState ==
    \E amount \in MgrAmounts :
        /\ IF mgr.channel = Null
           THEN /\ lastCall' = Outcome("updateState", TRUE, FALSE, NotInitialized)
                /\ UNCHANGED mgr
           ELSE /\ mgr.channel.applied < MaxUpdates
                /\ LET r == update_state(mgr.channel) IN
                   /\ mgr' = [mgr EXCEPT !.channel = r.ch, !.reported = <<amount>>]
                   /\ lastCall' = Outcome("updateState", FALSE, TRUE, "StateUpdate")
                                   @@ [amount |-> amount, previous |-> mgr.reported,
                                       update |-> [nonce |-> amount, balance |-> amount,
                                                   merkle_root |-> r.root]]
        /\ UNCHANGED <<dagBoc, ids, stateBoc, merkleRoot, nonce, codec, upd, heap, enc, pay, htlc, stm>>

ManagerGenerateProof ==
    /\ lastCall' = IF mgr.channel = Null
                   THEN Outcome("generateProof", TRUE, FALSE, NotInitialized)
                   ELSE Outcome("generateProof", FALSE, TRUE, "proof")
    /\ UNCHANGED mgr
    /\ UNCHANGED <<dagBoc, ids, stateBoc, merkleRoot, nonce, codec, upd, heap, enc, pay, htlc, stm>>

ManagerVerifyProof ==
    /\ IF mgr.channel = Null
       THEN lastCall' = Outcome("verifyProof", TRUE, FALSE, NotInitialized)
       ELSE \E verified \in verify_state(mgr.channel, RootOf(mgr.channel)) :
               lastCall' = Outcome("verifyProof", FALSE, TRUE, verified)
    /\ UNCHANGED mgr
    /\ UNCHANGED <<dagBoc, ids, stateBoc, merkleRoot, nonce, codec, upd, heap, enc, pay, htlc, stm>>

\* verifyFinalState up to await this.getCurrentState(): the channel test,
\* and the channel test and get_current_state of getCurrentState.
VerifyFinalState ==
    /\ ~mgr.verifying
    /\ IF mgr.channel = Null
       THEN /\ lastCall' = Outcome("verifyFinalState", TRUE, FALSE, NotInitialized)
            /\ UNCHANGED mgr
       ELSE /\ mgr' = [mgr EXCEPT !.verifying = TRUE]
            /\ UNCHANGED lastCall
    /\ UNCHANGED <<dagBoc, ids, stateBoc, merkleRoot, nonce, codec, upd, heap, enc, pay, htlc, stm>>

\* verifyFinalState resumed with the state: this.channel.verify_state(state)
\* with no test of this.channel.
VerifyFinalStateResume ==
    /\ mgr.verifying
    /\ mgr' = [mgr EXCEPT !.verifying = FALSE]
    /\ IF mgr.channel = Null
       THEN lastCall' = Outcome("verifyFinalState", TRUE, FALSE, NullTypeError)
       ELSE \E isValid \in verify_state(mgr.channel, RootOf(mgr.channel)) :
               lastCall' = Outcome("verifyFinalState", FALSE, TRUE,
                                   IF isValid THEN "confirmations: 1"
                                   ELSE "confirmations: 0")
    /\ UNCHANGED <<dagBoc, ids, stateBoc, merkleRoot, nonce, codec, upd, heap, enc, pay, htlc, stm>>

NextMethods ==
    \/ Initialize
    \/ InitializeResume
    \/ Destroy
    \/ GetCurrentState
    \/ ManagerUpdateState
    \/ ManagerGenerateProof
    \/ ManagerVerifyProof
    \/ VerifyFinalState
    \/ VerifyFinalStateResume
    \/ ProcessTransaction
    \/ StateSize
    \/ GenerateProof
    \/ VerifyProof
    \/ Decide

SpecMethods == InitManager /\ [][NextMethods]_vars

\* ------------------------------------------------- StateTransitionManager
\* MaxTransitions caps the transitions one manager commits.
MaxTransitions == 3
TransitionData == Payloads
InitialStates  == {Zero32, U8(PayloadA)}

\* computeNextState: one byte of the Poseidon hash of the current state
\* followed by the transition data, named by what was hashed.
computeNextState(currentState, transitionData) ==
    [t |-> "poseidon", input |-> <<currentState, transitionData>>]

\* wasm.generate_proof, when it returns: a proof of the transition it was
\* given.  It may throw instead; wasm.verify_proof answers either boolean.
generate_proof(currentState, nextState, transitionData) ==
    [t |-> "proof", old |-> currentState, new |-> nextState,
     data |-> transitionData]
verify_proof(proof) == BOOLEAN

\* WasmWrapper.verifyProof(proof, currentState, nextState): the arguments it
\* hands to wasm.verify_proof.
WasmWrapper_verifyProof(proof, currentState, nextState) == <<proof>>

NewStateTransitionManager(initialState) == [currentState |-> initialState]

\* generateTransition with currentState assigned before the proof is generated.
generateTransitionCommitFirst(m, transitionData, proofThrows) ==
    LET nextState == computeNextState(m.currentState, transitionData)
        committed == [m EXCEPT !.currentState = nextState] IN
    IF proofThrows
    THEN [m |-> committed, result |-> "generate_proof failed",
          oracleCalls |-> <<"generate_proof">>, returned |-> Undefined]
    ELSE [m |-> committed, result |-> "ok",
          oracleCalls |-> <<"generate_proof">>,
          returned |-> [proof |-> generate_proof(m.currentState, nextState,
                                                 transitionData),
                        nextState |-> nextState]]

\* generateTransition(transitionData): the manager it leaves, the calls it
\* made to the wasm module, and what it returned; when generate_proof throws
\* the exception leaves the function before the assignment.
generateTransition(m, transitionData, proofThrows) ==
    LET nextState == computeNextState(m.currentState, transitionData) IN
    IF proofThrows
    THEN [m |-> m, result |-> "generate_proof failed",
          oracleCalls |-> <<"generate_proof">>, returned |-> Undefined]
    ELSE [m |-> [m EXCEPT !.currentState = nextState], result |-> "ok",
          oracleCalls |-> <<"generate_proof">>,
          returned |-> [proof |-> generate_proof(m.currentState, nextState,
                                                 transitionData),
                        nextState |-> nextState]]

\* verifyTransition(proof, nextState): the arguments WasmWrapper.verifyProof
\* gets and those it passes on to wasm.verify_proof.
verifyTransition(m, proof, nextState) ==
    [wrapperArgs |-> <<proof, m.currentState, nextState>>,
     oracleArgs  |-> WasmWrapper_verifyProof(proof, m.currentState, nextState)]

\* stm.m is the manager.  The other fields are history: the manager before
\* the last call, the number of committed transitions, and the last
\* transition generateTransition returned, with its pre-transition state.
InitTransition ==
    /\ dagBoc = NewDAGBOC
    /\ ids = <<>>
    /\ stateBoc = NewSTATEBOC
    /\ merkleRoot = Zero32
    /\ nonce = 0
    /\ upd = Unbuilt /\ heap = Unbuilt /\ enc = Unbuilt
    /\ codec = Idle
    /\ pay = Unbuilt /\ htlc = Unbuilt /\ mgr = Unbuilt
    /\ lastCall = [op |-> "new", result |-> "ok"]
    /\ \E initialState \in InitialStates :
          stm = [m |-> NewStateTransitionManager(initialState),
                 before |-> NewStateTransitionManager(initialState),
                 transitions |-> 0, last |-> Undefined]

GenerateTransition ==
    \E transitionData \in TransitionData, proofThrows \in BOOLEAN :
        /\ stm.transitions < MaxTransitions
        /\ LET r == generateTransition(stm.m, transitionData, proofThrows) IN
           /\ stm' = [m |-> r.m, before |-> stm.m,
                      transitions |-> IF r.result = "ok" THEN stm.transitions + 1
                                      ELSE stm.transitions,
                      last |-> IF r.result = "ok"
                               THEN [pre |-> stm.m.currentState,
                                     proof |-> r.returned.proof,
                                     nextState |-> r.returned.nextState]
                               ELSE stm.last]
           /\ lastCall' = [op |-> "generateTransition", data |-> transitionData,
                           result |-> r.result, oracleCalls |-> r.oracleCalls,
                           returned |-> r.returned]
        /\ UNCHANGED <<dagBoc, ids, stateBoc, merkleRoot, nonce, codec, upd, heap, enc, pay, htlc, mgr>>

\* verifyTransition called with the values generateTransition last returned.
VerifyTransition ==
    /\ stm.last # Undefined
    /\ LET r == verifyTransition(stm.m, stm.last.proof, stm.last.nextState) IN
       \E answer \in verify_proof(stm.last.proof) :
          lastCall' = [op |-> "verifyTransition",
                       wrapperArgs |-> r.wrapperArgs,
                       oracleArgs |-> r.oracleArgs, result |-> answer]
    /\ stm' = [stm EXCEPT !.before = stm.m]
    /\ UNCHANGED <<dagBoc, ids, stateBoc, merkleRoot, nonce, codec, upd, heap, enc, pay, htlc, mgr>>

NextTransition ==
    \/ GenerateTransition
    \/ VerifyTransition

SpecTransition == InitTransition /\ [][NextTransition]_vars

\* ------------------------------------------- one op code on a drawn store
\* The stores processOpCode is applied to: every DAGBOC with at most MaxCells
\* cells, MaxRefs references and MaxRoots roots, each of which a sequence of
\* op codes builds from the empty store.
DagStates ==
    [dagCells     : SeqsUpTo(Payloads, MaxCells),
     references   : SeqsUpTo(CellIds \X CellIds, MaxRefs),
     roots        : SeqsUpTo(Payloads, MaxRoots),
     hash         : {Undefined},
     stateMapping : {<<>>}]

\* The op codes applied: those of OpCodes, SetRoot with a negative index,
\* and an op type outside the vocabulary.
OpsApplied ==
    OpCodes \cup {[type |-> "SetRoot", index |-> -1], [type |-> "Mint"]}

InitOps ==
    /\ ids = <<>>
    /\ stateBoc = NewSTATEBOC
    /\ merkleRoot = Zero32
    /\ nonce = 0
    /\ upd = Unbuilt /\ heap = Unbuilt /\ enc = Unbuilt
    /\ codec = Idle
    /\ pay = Unbuilt /\ htlc = Unbuilt /\ mgr = Unbuilt /\ stm = Unbuilt
    /\ lastCall = [op |-> "new", result |-> "ok"]
    /\ dagBoc \in DagStates

\* One processOpCode call; lastCall keeps the op code and the store before.
ApplyOpCode ==
    \E opCode \in OpsApplied :
        /\ lastCall.op = "new"
        /\ LET r == processOpCode(dagBoc, opCode) IN
           /\ dagBoc' = r.boc
           /\ lastCall' = [op |-> "processOpCode", opCode |-> opCode,
                           before |-> dagBoc, result |-> r.result]
        /\ UNCHANGED <<ids, stateBoc, merkleRoot, nonce, codec>>
        /\ UNCHANGED extVars

NextOps == ApplyOpCode

SpecOps == InitOps /\ [][NextOps]_vars

\* ------------------------------------------------- DAGBOC.stateMapping
\* MaxMapping caps the entries of the Map.
MaxMapping == 2

\* stateMapping is a Map<Uint8Array, number>: a Map finds a key that is an
\* object by identity, and every key stored is a fresh new Uint8Array(key),
\* identical to no key stored before.  The Map is modelled by its entries
\* <<bytes of the key, value>> in insertion order; set() with a fresh key
\* replaces nothing and appends.
updateStateMapping(boc, key, value) ==
    [boc EXCEPT !.stateMapping = Append(@, <<key, value>>)]

\* clone(): copies of the cells, roots and hash, the same references, and
\* every entry of the Map set again under a fresh copy of its key.
clone(boc) ==
    [dagCells     |-> [i \in 1..Len(boc.dagCells) |-> boc.dagCells[i]],
     references   |-> boc.references,
     roots        |-> [i \in 1..Len(boc.roots) |-> boc.roots[i]],
     hash         |-> IF IsTruthy(boc.hash) THEN boc.hash ELSE Undefined,
     stateMapping |-> [i \in 1..Len(boc.stateMapping) |->
                          <<boc.stateMapping[i][1], boc.stateMapping[i][2]>>]]

InitMapping ==
    /\ dagBoc = NewDAGBOC
    /\ ids = <<>>
    /\ stateBoc = NewSTATEBOC
    /\ merkleRoot = Zero32
    /\ nonce = 0
    /\ upd = Unbuilt /\ heap = Unbuilt /\ enc = Unbuilt
    /\ codec = Idle
    /\ pay = Unbuilt /\ htlc = Unbuilt /\ mgr = Unbuilt /\ stm = Unbuilt
    /\ lastCall = [op |-> "new", result |-> "ok"]

UpdateStateMapping ==
    \E key \in Payloads, value \in CellIds :
        /\ Len(dagBoc.stateMapping) < MaxMapping
        /\ dagBoc' = updateStateMapping(dagBoc, key, value)
        /\ lastCall' = [op |-> "updateStateMapping", key |-> key,
                        value |-> value, result |-> "ok"]
        /\ UNCHANGED <<ids, stateBoc, merkleRoot, nonce, codec>>
        /\ UNCHANGED extVars

\* The store replaced by its clone.
Clone ==
    /\ dagBoc' = clone(dagBoc)
    /\ lastCall' = [op |-> "clone", result |-> "ok"]
    /\ UNCHANGED <<ids, stateBoc, merkleRoot, nonce, codec>>
    /\ UNCHANGED extVars

\* The store replaced by deserialize(serialize(store)).
SerializeDeserialize ==
    /\ dagBoc' = DAGBOC_deserialize(DAGBOC_serialize(dagBoc))
    /\ lastCall' = [op |-> "deserialize", result |-> "ok"]
    /\ UNCHANGED <<ids, stateBoc, merkleRoot, nonce, codec>>
    /\ UNCHANGED extVars

NextMapping ==
    \/ UpdateStateMapping
    \/ Clone
    \/ SerializeDeserialize

SpecMapping == InitMapping /\ [][NextMapping]_vars

\* --------------------------- StateContract.updateState, calls overlapping
\* updateState is async: a call runs to `await operation.intoSerde()`, is
\* resumed to run processOpCode, setStateCells and the synchronous part of
\* computeHash (which builds the bytes to hash and hands them to
\* crypto.subtle.digest), and is resumed again with the digest to assign
\* merkleRoot and raise the nonce.  Other calls run between the resumptions,
\* and the digests resolve in any order.
MaxStarts == 3
Callers == {1, 2}

\* What the operations of the overlapping calls decode to.
ConcurrentOps ==
    {[type |-> "Add", cell |-> c] : c \in Payloads}
    \cup {[type |-> "Remove", cell |-> PayloadA], [type |-> "Custom"], NullOp}

NotStarted == [pc |-> "idle"]

InitConcurrent ==
    /\ dagBoc = NewDAGBOC
    /\ ids = <<>>
    /\ lastCall = [op |-> "new", result |-> "ok"]
    /\ stateBoc = NewSTATEBOC
    /\ merkleRoot = Zero32
    /\ nonce = 0
    /\ codec = Idle
    /\ pay = Unbuilt /\ htlc = Unbuilt /\ mgr = Unbuilt /\ stm = Unbuilt
    /\ heap = Unbuilt /\ enc = Unbuilt
    /\ upd = [calls |-> [p \in Callers |-> NotStarted], started |-> 0, successes |-> 0]

\* updateState(operation) is called: it runs to `await operation.intoSerde()`.
UpdateStateCall ==
    \E p \in Callers, opCode \in ConcurrentOps :
        /\ upd.calls[p].pc \in {"idle", "done"}
        /\ upd.started < MaxStarts
        /\ upd' = [upd EXCEPT !.calls[p] = [pc |-> "intoSerde", opCode |-> opCode],
                              !.started = @ + 1]
        /\ UNCHANGED <<dagBoc, ids, lastCall, stateBoc, merkleRoot, nonce, codec,
                       pay, htlc, mgr, stm, heap, enc>>

\* The call is resumed with the op code and runs to `await computeHash()`,
\* or returns Err.
UpdateStateProcess ==
    \E p \in Callers :
        /\ upd.calls[p].pc = "intoSerde"
        /\ LET opCode == upd.calls[p].opCode
               r      == processOpCode(dagBoc, opCode) IN
           IF opCode = NullOp
           THEN /\ upd' = [upd EXCEPT !.calls[p] =
                              [pc |-> "done", result |-> "Failed to deserialize operation"]]
                /\ UNCHANGED <<dagBoc, stateBoc>>
           ELSE IF r.result # "ok"
           THEN /\ upd' = [upd EXCEPT !.calls[p] = [pc |-> "done", result |-> r.result]]
                /\ UNCHANGED <<dagBoc, stateBoc>>
           ELSE LET cells == getStateCells(r.boc)
                    sboc  == setStateCells(stateBoc, cells)
                    h     == STATEBOC_computeHash(sboc) IN
                /\ dagBoc' = r.boc
                /\ stateBoc' = h.obj
                /\ upd' = [upd EXCEPT !.calls[p] =
                              [pc |-> "computeHash", digest |-> h.value]]
        /\ UNCHANGED <<ids, lastCall, merkleRoot, nonce, codec,
                       pay, htlc, mgr, stm, heap, enc>>

\* The call is resumed with its digest: merkleRoot, nonce, Ok.
UpdateStateCommit ==
    \E p \in Callers :
        /\ upd.calls[p].pc = "computeHash"
        /\ merkleRoot' = upd.calls[p].digest
        /\ nonce' = nonce + 1
        /\ upd' = [upd EXCEPT !.calls[p] = [pc |-> "done", result |-> "ok"],
                              !.successes = @ + 1]
        /\ UNCHANGED <<dagBoc, ids, lastCall, stateBoc, codec,
                       pay, htlc, mgr, stm, heap, enc>>

NextConcurrent ==
    \/ UpdateStateCall
    \/ UpdateStateProcess
    \/ UpdateStateCommit

SpecConcurrent == InitConcurrent /\ [][NextConcurrent]_vars

\* No updateState call is between its start and its return.
AllCompleted == \A p \in Callers : upd.calls[p].pc \in {"idle", "done"}

\* ------------------------------------------- the bytes computeHash hashes
\* Snapshots whose lists differ and whose cells, reference indices and roots
\* have bytes, lengths and sizes of more than one kind.
EncCells == {<<>>, <<<<1>>>>, <<<<1, 2>>, <<3>>>>, <<<<1>>, <<2, 3>>>>}
EncReferences == {<<>>, <<<<0, 1>>>>, <<<<256, 1>>>>}
EncRoots == {<<>>, <<<<1>>>>}

EncDagSnapshots ==
    [dagCells     : EncCells,
     references   : EncReferences,
     roots        : EncRoots,
     hash         : {Undefined},
     stateMapping : {<<>>}]

\* The arrays of a STATEBOC hold Uint8Arrays in all three lists.
U8s(arrs) == [i \in 1..Len(arrs) |-> U8(arrs[i])]

EncStateSnapshots ==
    [stateCells : {U8s(c) : c \in EncCells},
     references : {U8s(r) : r \in EncRoots},
     roots      : {U8s(r) : r \in EncRoots},
     hashValue  : {Undefined}]

\* enc.a and enc.b are two snapshots of one class; enc.hashA and enc.hashB
\* the digests computeHash returned for them, each with the bytes hashed.
InitEncoding ==
    /\ dagBoc = NewDAGBOC
    /\ ids = <<>>
    /\ lastCall = [op |-> "new", result |-> "ok"]
    /\ stateBoc = NewSTATEBOC
    /\ merkleRoot = Zero32
    /\ nonce = 0
    /\ codec = Idle
    /\ pay = Unbuilt /\ htlc = Unbuilt /\ mgr = Unbuilt /\ stm = Unbuilt
    /\ upd = Unbuilt /\ heap = Unbuilt
    /\ \E kind \in {"STATEBOC", "DAGBOC"} :
         \E a, b \in (IF kind = "STATEBOC" THEN EncStateSnapshots ELSE EncDagSnapshots) :
            enc = [kind |-> kind, a |-> a, b |-> b,
                   hashA |-> Undefined, hashB |-> Undefined]

\* computeHash() of the class of the snapshot.
SnapshotHash(kind, snap) ==
    IF kind = "STATEBOC" THEN STATEBOC_computeHash(snap).value
    ELSE DAGBOC_computeHash(snap).value

ComputeHashA ==
    /\ enc.hashA = Undefined
    /\ enc' = [enc EXCEPT !.hashA = SnapshotHash(enc.kind, enc.a)]
    /\ UNCHANGED <<dagBoc, ids, lastCall, stateBoc, merkleRoot, nonce, codec,
                   pay, htlc, mgr, stm, upd, heap>>

ComputeHashB ==
    /\ enc.hashB = Undefined
    /\ enc' = [enc EXCEPT !.hashB = SnapshotHash(enc.kind, enc.b)]
    /\ UNCHANGED <<dagBoc, ids, lastCall, stateBoc, merkleRoot, nonce, codec,
                   pay, htlc, mgr, stm, upd, heap>>

NextEncoding ==
    \/ ComputeHashA
    \/ ComputeHashB

SpecEncoding == InitEncoding /\ [][NextEncoding]_vars

\* ------------------------------------------ DAGBOC objects and references
\* The repository has two classes DAGBOC: the one of part_007, whose with*
\* methods work on a clone, and the one of part_015, which has no clone and
\* whose with* methods assign the field of the receiver and return this.
\* heap.build is the class the program is built with.  heap.objs holds the
\* objects: objs[1] is the receiver and objs[2] the object a call constructs,
\* if it constructs one.  heap.ret is the object the call returned (0 before
\* the call), heap.before the objects before the last call.
MaxHeapOps == 1
HeapBuilds == {"part_007", "part_015"}

HeapReceivers ==
    [dagCells     : {<<PayloadA>>, <<PayloadA, PayloadB>>},
     references   : {<<>>, <<<<0, 0>>>>},
     roots        : {<<>>, <<PayloadA>>},
     hash         : {Undefined, U8(<<7>>)},
     stateMapping : {<<>>, <<<<PayloadA, 0>>>>}]

\* The arguments of withDagCells and withRoots, and of withReferences.
HeapArrays == {<<>>, <<PayloadB>>}
HeapReferences == {<<>>, <<<<0, 1>>>>}

\* The op codes applied through the references afterwards.
HeapOps ==
    {[type |-> "Add", cell |-> PayloadB],
     [type |-> "SetData", cell |-> PayloadA, newData |-> PayloadB],
     [type |-> "AddReference", from |-> 0, to |-> 0],
     [type |-> "SetRoot", index |-> 0],
     [type |-> "Remove", cell |-> PayloadA],
     [type |-> "RemoveReference", from |-> 0, to |-> 0],
     [type |-> "Custom"]}

InitHeap ==
    /\ dagBoc = NewDAGBOC
    /\ ids = <<>>
    /\ lastCall = [op |-> "new", result |-> "ok"]
    /\ stateBoc = NewSTATEBOC
    /\ merkleRoot = Zero32
    /\ nonce = 0
    /\ codec = Idle
    /\ pay = Unbuilt /\ htlc = Unbuilt /\ mgr = Unbuilt /\ stm = Unbuilt
    /\ upd = Unbuilt /\ enc = Unbuilt
    /\ \E build \in HeapBuilds, receiver \in HeapReceivers :
          heap = [build |-> build, objs |-> <<receiver, Unbuilt>>,
                  before |-> <<receiver, Unbuilt>>, ret |-> 0, ops |-> 0]

\* this.clone() of part_007: a second object; the reference returned is 2.
heapClone(h) == [objs |-> [h.objs EXCEPT ![2] = clone(h.objs[1])], ret |-> 2]

withDagCells(h, dagCells) ==
    IF h.build = "part_007"
    THEN [objs |-> [h.objs EXCEPT ![2] = [clone(h.objs[1]) EXCEPT !.dagCells = dagCells]],
          ret |-> 2]
    ELSE [objs |-> [h.objs EXCEPT ![1].dagCells = dagCells], ret |-> 1]

withReferences(h, references) ==
    IF h.build = "part_007"
    THEN [objs |-> [h.objs EXCEPT ![2] = [clone(h.objs[1]) EXCEPT !.references = references]],
          ret |-> 2]
    ELSE [objs |-> [h.objs EXCEPT ![1].references = references], ret |-> 1]

withRoots(h, roots) ==
    IF h.build = "part_007"
    THEN [objs |-> [h.objs EXCEPT ![2] = [clone(h.objs[1]) EXCEPT !.roots = roots]],
          ret |-> 2]
    ELSE [objs |-> [h.objs EXCEPT ![1].roots = roots], ret |-> 1]

\* The heap after a call that produced a snapshot.
Produced(r) ==
    [heap EXCEPT !.objs = r.objs, !.before = heap.objs, !.ret = r.ret]

CloneReceiver ==
    /\ heap.ret = 0 /\ heap.build = "part_007"
    /\ heap' = Produced(heapClone(heap))
    /\ lastCall' = [op |-> "clone", result |-> "ok"]
    /\ UNCHANGED <<dagBoc, ids, stateBoc, merkleRoot, nonce, codec,
                   pay, htlc, mgr, stm, upd, enc>>

WithDagCells ==
    \E dagCells \in HeapArrays :
        /\ heap.ret = 0
        /\ heap' = Produced(withDagCells(heap, dagCells))
        /\ lastCall' = [op |-> "withDagCells", result |-> "ok"]
        /\ UNCHANGED <<dagBoc, ids, stateBoc, merkleRoot, nonce, codec,
                       pay, htlc, mgr, stm, upd, enc>>

WithReferences ==
    \E references \in HeapReferences :
        /\ heap.ret = 0
        /\ heap' = Produced(withReferences(heap, references))
        /\ lastCall' = [op |-> "withReferences", result |-> "ok"]
        /\ UNCHANGED <<dagBoc, ids, stateBoc, merkleRoot, nonce, codec,
                       pay, htlc, mgr, stm, upd, enc>>

WithRoots ==
    \E roots \in HeapArrays :
        /\ heap.ret = 0
        /\ heap' = Produced(withRoots(heap, roots))
        /\ lastCall' = [op |-> "withRoots", result |-> "ok"]
        /\ UNCHANGED <<dagBoc, ids, stateBoc, merkleRoot, nonce, codec,
                       pay, htlc, mgr, stm, upd, enc>>

\* The object a reference denotes: the original is object 1, the copy the
\* object the producing call returned.
Denotes(via) == IF via = "original" THEN 1 ELSE heap.ret

\* processOpCode called through the original or through the copy.
ProcessThrough ==
    \E via \in {"original", "copy"}, opCode \in HeapOps :
        /\ heap.ret # 0
        /\ heap.ops < MaxHeapOps
        /\ LET o == Denotes(via)
               r == processOpCode(heap.objs[o], opCode) IN
           /\ heap' = [heap EXCEPT !.objs[o] = r.boc, !.before = heap.objs,
                                   !.ops = @ + 1]
           /\ lastCall' = [op |-> "processOpCode", via |-> via,
                           opCode |-> opCode, result |-> r.result]
        /\ UNCHANGED <<dagBoc, ids, stateBoc, merkleRoot, nonce, codec,
                       pay, htlc, mgr, stm, upd, enc>>

NextHeap ==
    \/ CloneReceiver
    \/ WithDagCells
    \/ WithReferences
    \/ WithRoots
    \/ ProcessThrough

SpecHeap == InitHeap /\ [][NextHeap]_vars

\* ------------------------------------------------- the reference graph
Edges(references) == {references[i] : i \in 1..Len(references)}

Succ(E, S) == {e[2] : e \in {d \in E : d[1] \in S}}

RECURSIVE Closure(_, _, _)
Closure(E, S, n) == IF n = 0 THEN S ELSE Closure(E, S \cup Succ(E, S), n - 1)

\* The ids reachable from a through one edge or more.
ReachableFrom(E, a) == Closure(E, Succ(E, {a}), Cardinality(E))

Acyclic(E) == \A e \in E : e[1] \notin ReachableFrom(E, e[1])

Present(boc, id) == id >= 0 /\ id < Len(boc.dagCells)

\* ------------------------------------------------------------------ claims

\* C1: in every state reached by processOpCode calls from an empty DAGBOC the
\* directed graph of the pairs in references is acyclic.
C1_ReferencesAcyclic == Acyclic(Edges(dagBoc.references))

\* C2: in every reachable state both ends of every pair in references name a
\* cell present in dagCells (an AddReference with an absent end adds no edge).
C2_ReferencesNameCells ==
    \A e \in Edges(dagBoc.references) : Present(dagBoc, e[1]) /\ Present(dagBoc, e[2])

\* C3: in every reachable state every entry of roots names (is byte-equal to)
\* a cell present in the store, also after Remove, SetData or SetCode of a
\* cell that SetRoot was applied to.
C3_RootsNameCells ==
    \A i \in 1..Len(dagBoc.roots) : FindIndex(dagBoc.dagCells, dagBoc.roots[i]) # -1

\* C4: a processOpCode call that throws leaves dagCells, references, roots,
\* stateMapping and hash as they were before the call.
C4_FailedCallChangesNothing ==
    [][lastCall'.result # "ok" => dagBoc' = dagBoc]_vars

\* C4 witness: a call has thrown on a store that holds cells, an edge and a root.
C4_Witness ==
    /\ lastCall.op = "Remove"
    /\ lastCall.result = "Cell not found"
    /\ dagBoc.dagCells # <<>>
    /\ dagBoc.references # <<>>
    /\ dagBoc.roots # <<>>

\* C5: AddReference(from, to) between present cells adds no edge when
\* from = to or from is already reachable from to: an AddReference that
\* succeeded did not close a cycle.
C5_CycleRejected ==
    [][(lastCall'.op = "AddReference" /\ lastCall'.result = "ok")
        => LET e == dagBoc'.references[Len(dagBoc'.references)] IN
           (Present(dagBoc, e[1]) /\ Present(dagBoc, e[2]))
               => /\ e[1] # e[2]
                  /\ e[1] \notin ReachableFrom(Edges(dagBoc.references), e[2])]_vars

\* C6: Remove of a cell that is a root or an end of a reference fails and
\* leaves the store unchanged: a Remove that succeeded took away a cell that
\* was neither a root nor an end of a reference.
C6_RemoveRejectedWhileInUse ==
    [][(lastCall'.op = "Remove" /\ lastCall'.result = "ok")
        => \A cell \in Payloads :
               LET removeIndex == FindIndex(dagBoc.dagCells, cell) IN
               (removeIndex # -1 /\ dagBoc'.dagCells = Splice(dagBoc.dagCells, removeIndex))
                   => /\ FindIndex(dagBoc.roots, cell) = -1
                      /\ \A e \in Edges(dagBoc.references) :
                             e[1] # removeIndex /\ e[2] # removeIndex]_vars

\* C7: the id addCell returned for a cell keeps naming that cell (the cell
\* stays at that index) while the cell is in the store, and no two cells in
\* the store were given the same id.
C7_IdsStable ==
    /\ \A i \in 1..Len(ids) : ids[i] = i - 1
    /\ \A i, j \in 1..Len(ids) : ids[i] = ids[j] => i = j

\* The bytes a reader of the snapshot gets from its arrays (Array.from).
BytesOfAll(arrs) == [i \in 1..Len(arrs) |-> ArrayFrom(arrs[i])]
BytesOfHash(h)   == IF h = Undefined THEN <<"undefined">> ELSE <<"bytes", ArrayFrom(h)>>

\* C8: for every snapshot s, STATEBOC or DAGBOC, deserialize(serialize(s))
\* has the cells, references, roots and hash of s, and computeHash of the
\* deserialized snapshot returns what computeHash(s) returns.
C8_RoundTrip ==
    /\ codec.pc = "deserialized"
           => IF codec.kind = "STATEBOC"
              THEN /\ BytesOfAll(codec.out.stateCells) = BytesOfAll(codec.snap.stateCells)
                   /\ BytesOfAll(codec.out.references) = BytesOfAll(codec.snap.references)
                   /\ BytesOfAll(codec.out.roots) = BytesOfAll(codec.snap.roots)
                   /\ BytesOfHash(codec.out.hashValue) = BytesOfHash(codec.snap.hashValue)
              ELSE /\ codec.out.dagCells = codec.snap.dagCells
                   /\ codec.out.references = codec.snap.references
                   /\ codec.out.roots = codec.snap.roots
                   /\ BytesOfHash(codec.out.hash) = BytesOfHash(codec.snap.hash)
    /\ (codec.pc = "deserialized" /\ codec.hashSnap # Undefined /\ codec.hashOut # Undefined)
           => codec.hashOut = codec.hashSnap

\* The content of a snapshot: its cells, references and roots.
ContentOnly(kind, s) ==
    IF kind = "STATEBOC"
    THEN [s EXCEPT !.hashValue = Undefined]
    ELSE [s EXCEPT !.hash = Undefined, !.stateMapping = <<>>]

\* C9: computeHash is a pure function of the snapshot's content: a call
\* changes no field of the object it is called on, a second call with no
\* mutation in between returns what the first returned, and the value
\* returned is decided by the cells, references and roots alone.
C9_ComputeHashPure ==
    [][codec'.pc = codec.pc
        => /\ codec'.snap = codec.snap
           /\ codec'.out = codec.out
           /\ codec.hashSnap # Undefined => codec'.hashSnap = codec.hashSnap
           /\ codec.hashOut # Undefined => codec'.hashOut = codec.hashOut
           /\ codec'.hashSnap # Undefined
                  => codec'.hashSnap
                         = computeHash(codec.kind, ContentOnly(codec.kind, codec.snap)).value
           /\ codec'.hashOut # Undefined
                  => codec'.hashOut
                         = computeHash(codec.kind, ContentOnly(codec.kind, codec.out)).value]_vars

\* C9 witness: computeHash has been called on a DAGBOC that holds a cell, a
\* reference, a root, a hash and a mapping entry, and on its deserialized copy.
C9_Witness ==
    /\ codec.pc = "deserialized"
    /\ codec.kind = "DAGBOC"
    /\ codec.snap.dagCells # <<>>
    /\ codec.snap.references # <<>>
    /\ codec.snap.roots # <<>>
    /\ codec.snap.hash # Undefined
    /\ codec.snap.stateMapping # <<>>
    /\ codec.hashSnap # Undefined
    /\ codec.hashOut # Undefined

\* C10: in every state of StateContract reached by sequential updateState
\* calls, the initial state included, getMerkleRoot() is the computeHash of
\* the contract's current snapshot.
C10_RootIsSnapshotHash == merkleRoot = STATEBOC_computeHash(stateBoc).value


\* ----------------------------------------- claims: PaymentChannelContract
\* C11: a channel opened with deposits depositA and depositB has balances
\* [depositA, depositB] and nonce 0, for every pair of deposits.
C11_OpenGivesDeposits ==
    lastCall.op = "open" =>
        /\ pay.c.balances = pay.deposits
        /\ pay.c.nonce = 0

\* C12: a transfer with from = to, or with an index outside {0, 1}, returns
\* the invalid-argument error and leaves balances and nonce as they were.
C12_BadIndicesRejected ==
    (/\ lastCall.op = "transfer"
     /\ \/ lastCall.from = lastCall.to
        \/ lastCall.from \notin {0, 1}
        \/ lastCall.to \notin {0, 1})
    => /\ lastCall.result = "Invalid participant index"
       /\ pay.c = pay.before

\* C13: a transfer that passes the index check with an amount above the
\* sender's balance returns the insufficient-balance error and leaves both
\* balances and the nonce as they were, in every state prior transfers reach.
C13_InsufficientBalance ==
    (/\ lastCall.op = "transfer"
     /\ lastCall.from \in {0, 1}
     /\ lastCall.to < 2
     /\ lastCall.amount > pay.before.balances[lastCall.from + 1])
    => /\ lastCall.result = "Insufficient balance"
       /\ pay.c = pay.before

\* The scenario: after one transfer from 0 to 1 the balances differ, and a
\* transfer from 1 to 0 of more than participant 1 holds has failed.
C13_Witness ==
    /\ lastCall.op = "transfer"
    /\ lastCall.from = 1 /\ lastCall.to = 0
    /\ pay.before.nonce = 1
    /\ pay.before.balances[1] < pay.before.balances[2]
    /\ lastCall.amount > pay.before.balances[2]
    /\ lastCall.result = "Insufficient balance"

\* C14: the nonce is the number of successful transfers so far; a successful
\* transfer debits from by amount, credits to by amount and raises the nonce
\* by exactly 1, and a failed transfer leaves the nonce as it was.
C14_NonceCountsTransfers ==
    /\ pay.c.nonce = pay.successes
    /\ lastCall.op = "transfer" =>
         IF lastCall.result = "ok"
         THEN /\ lastCall.from \in {0, 1}
              /\ lastCall.to \in {0, 1}
              /\ LET debited == [pay.before.balances EXCEPT
                                    ![lastCall.from + 1] = @ - lastCall.amount] IN
                 pay.c.balances = [debited EXCEPT
                                    ![lastCall.to + 1] = @ + lastCall.amount]
              /\ pay.c.nonce = pay.before.nonce + 1
         ELSE pay.c.nonce = pay.before.nonce

\* A transfer has failed after two transfers that moved funds succeeded.
C14_Witness ==
    /\ lastCall.op = "transfer"
    /\ lastCall.result = "Insufficient balance"
    /\ pay.successes = 2
    /\ pay.c.balances # <<pay.deposits[1], pay.deposits[1]>>

\* C15: once settle() has succeeded, every later transfer fails and leaves
\* balances and nonce as they were.
C15_SettledRejectsTransfer ==
    (pay.settled /\ lastCall.op = "transfer")
    => /\ lastCall.result # "ok"
       /\ pay.c = pay.before


\* ---------------------------------------------------- claims: HTLCWrapper
\* C19: a claim on a pending HTLC with a preimage whose SHA-256 is not the
\* hash lock fails with the invalid-preimage error and leaves the HTLC
\* pending; so a claimed HTLC has seen a claim with a matching preimage.
C19_WrongPreimageRejected ==
    /\ (/\ lastCall.op = "claim"
        /\ ~htlc.before.claimed /\ ~htlc.before.refunded
        /\ Sha256(lastCall.preimage) # htlc.h.hashLock)
       => /\ lastCall.result = "Invalid preimage"
          /\ htlc.h = htlc.before
    /\ htlc.h.claimed => htlc.correctSeen

\* C20: after a successful claim, a second claim and every refund, whatever
\* its currentTime, fails with the already-resolved error.
C20_AfterClaimAlreadyResolved ==
    (htlc.before.claimed /\ lastCall.op \in {"claim", "refund"})
    => lastCall.result = AlreadyResolved

\* C20, amended: after a successful claim no call changes the HTLC; a second
\* claim, and a refund with currentTime > timeLock, fails with the
\* already-resolved error; a refund with currentTime <= timeLock fails with
\* the time-lock error.
C20_AfterClaimNothingSucceeds ==
    htlc.before.claimed =>
        /\ htlc.h = htlc.before
        /\ lastCall.op = "claim" => lastCall.result = AlreadyResolved
        /\ lastCall.op = "refund" =>
             lastCall.result = IF lastCall.currentTime <= htlc.h.timeLock
                               THEN "Time lock not expired"
                               ELSE AlreadyResolved

\* A refund presented before the time lock expired, after a successful claim.
C20_Witness ==
    /\ htlc.before.claimed
    /\ lastCall.op = "refund"
    /\ lastCall.currentTime <= htlc.h.timeLock
    /\ lastCall.result = "Time lock not expired"


\* ------------------------------------------------- claims: ChannelManager
\* C16: when processTransaction fails because verification returned false,
\* the channel state is the one before the call: the update applied by the
\* call's updateState step is not retained.
C16_FailedVerificationRestores ==
    (lastCall.op = "processTransaction" /\ lastCall.result = VerificationFailed)
    => mgr.channel = lastCall.before

\* C17: two processTransaction calls on one manager never interleave: while
\* one call is between its updateState step and its verification decision,
\* the other is not.
C17_PipelinesDoNotInterleave ==
    \A p \in Calls, q \in Calls :
        (p # q /\ InFlight(p)) => ~InFlight(q)


\* -------------------------------------------------- claims: StateContract
\* C18: an updateState call that fails, because processOpCode throws or the
\* operation cannot be decoded, leaves nonce, merkleRoot, the state snapshot
\* and the DAG as they were, and a successful call raises the nonce by
\* exactly 1; so over sequential calls, starting from nonce 0, the nonce is
\* the number of successful updates.
C18_FailedUpdateChangesNothing ==
    [][lastCall'.op = "updateState" =>
         IF lastCall'.result = "ok"
         THEN nonce' = nonce + 1
         ELSE UNCHANGED <<nonce, merkleRoot, stateBoc, dagBoc>>]_vars

\* A call whose op code threw has returned after an update that succeeded.
C18_Witness ==
    /\ lastCall.op = "updateState"
    /\ lastCall.result \notin {"ok", "Failed to deserialize operation"}
    /\ nonce > 0
    /\ dagBoc.dagCells # <<>>


\* C21: a refund with currentTime <= timeLock, equality included, fails with
\* the time-lock error and leaves the HTLC as it was, at every attempt; a
\* refund on a pending HTLC succeeds, and sets refunded, exactly when
\* currentTime > timeLock.
C21_RefundNeedsExpiredLock ==
    lastCall.op = "refund" =>
        /\ lastCall.currentTime <= htlc.before.timeLock =>
             /\ lastCall.result = "Time lock not expired"
             /\ htlc.h = htlc.before
        /\ (~htlc.before.claimed /\ ~htlc.before.refunded) =>
             /\ (lastCall.result = "ok") <=> (lastCall.currentTime > htlc.before.timeLock)
             /\ htlc.h.refunded <=> (lastCall.currentTime > htlc.before.timeLock)
             /\ htlc.h = [htlc.before EXCEPT !.refunded = htlc.h.refunded]

\* A refund presented at exactly the time lock on a pending HTLC has failed.
C21_Witness ==
    /\ lastCall.op = "refund"
    /\ ~htlc.before.claimed /\ ~htlc.before.refunded
    /\ lastCall.currentTime = htlc.before.timeLock
    /\ lastCall.result = "Time lock not expired"
    /\ ~htlc.h.refunded


\* C22: verifyState never changes the contract: after the call merkleRoot,
\* nonce, the state snapshot and the DAG are as before, for every input; and
\* input that is not the serialization of a snapshot yields an error result,
\* not an exception that escapes the call.
C22_VerifyStateReadsOnly ==
    [][lastCall'.op = "verifyState" =>
         /\ UNCHANGED <<merkleRoot, nonce, stateBoc, dagBoc>>
         /\ lastCall'.input # "snapshot" => lastCall'.result = "Err(false)"]_vars


\* ----------------------------------------- claims: StateTransitionManager
\* C23: when proof generation fails inside generateTransition, currentState
\* is the pre-transition state afterwards and no state or proof is returned.
C23_FailedProofKeepsState ==
    (lastCall.op = "generateTransition" /\ lastCall.result # "ok")
    => /\ stm.m = stm.before
       /\ lastCall.returned = Undefined

\* Proof generation has failed on a manager that had committed a transition.
C23_Witness ==
    /\ lastCall.op = "generateTransition"
    /\ lastCall.result = "generate_proof failed"
    /\ stm.transitions = 1
    /\ stm.m.currentState = stm.last.nextState

\* C25: generateTransition assigns currentState = nextState only after the
\* generated proof has been verified: a committed transition has had its
\* proof passed to the verifier during the call.
C25_CommitAfterVerification ==
    (lastCall.op = "generateTransition" /\ lastCall.result = "ok")
    => \E i \in 1..Len(lastCall.oracleCalls) :
           lastCall.oracleCalls[i] = "verify_proof"

\* C26: verifyTransition(proof, nextState), called with the values
\* generateTransition returned, passes the pre-transition state as old root
\* and nextState as new root, and the oracle call receives both roots.
C26_VerifiedAgainstSameRoots ==
    lastCall.op = "verifyTransition" =>
        /\ lastCall.wrapperArgs =
             <<stm.last.proof, stm.last.pre, stm.last.nextState>>
        /\ lastCall.oracleArgs =
             <<stm.last.proof, stm.last.pre, stm.last.nextState>>


\* C24: the merkleRoot a successful updateState commits is the hash over the
\* DAG's cells, references and roots: a successful op code that changes the
\* references or the roots changes the bytes that are hashed, and so the
\* committed root.
C24_RootCoversReferencesAndRoots ==
    [][(/\ lastCall'.op = "updateState"
        /\ lastCall'.result = "ok"
        /\ \/ dagBoc'.references # dagBoc.references
           \/ dagBoc'.roots # dagBoc.roots)
       => merkleRoot' # merkleRoot]_vars


\* ------------------------------------------------ claims: single op codes
\* C27: SetRoot on an existing cell appends exactly one entry for that cell
\* (a copy of its bytes) at the end of roots, keeps the earlier roots in
\* their order and leaves cells and references as they were; SetRoot on an
\* absent or out-of-range index fails and changes nothing.
C27_SetRootAppends ==
    (lastCall.op = "processOpCode" /\ lastCall.opCode.type = "SetRoot") =>
        LET index  == lastCall.opCode.index
            before == lastCall.before IN
        IF index >= 0 /\ index < Len(before.dagCells)
        THEN /\ lastCall.result = "ok"
             /\ dagBoc.roots = Append(before.roots, before.dagCells[index + 1])
             /\ dagBoc = [before EXCEPT !.roots = dagBoc.roots]
        ELSE /\ lastCall.result = "Index out of bounds"
             /\ dagBoc = before

\* SetRoot on the second cell of a store that already had another root.
C27_Witness ==
    /\ lastCall.op = "processOpCode"
    /\ lastCall.opCode = [type |-> "SetRoot", index |-> 1]
    /\ lastCall.before.roots = <<PayloadA>>
    /\ lastCall.before.dagCells = <<PayloadA, PayloadB>>
    /\ dagBoc.roots = <<PayloadA, PayloadB>>

\* C28: a successful SetData or SetCode replaces the payload of exactly one
\* cell, one that held the bytes the op names, and of no other, also when
\* several cells hold those bytes: the number and order of cells, the
\* references and the roots are as before; it fails with the not-found
\* error, changing nothing, when no cell holds those bytes.
C28_SetDataReplacesOneCell ==
    (lastCall.op = "processOpCode"
     /\ lastCall.opCode.type \in {"SetData", "SetCode"}) =>
        LET op      == lastCall.opCode
            before  == lastCall.before
            named   == IF op.type = "SetData" THEN op.cell ELSE op.code
            payload == IF op.type = "SetData" THEN op.newData ELSE op.newCode
            holders == {i \in 1..Len(before.dagCells) : before.dagCells[i] = named} IN
        IF holders # {}
        THEN /\ lastCall.result = "ok"
             /\ \E i \in holders :
                    dagBoc = [before EXCEPT !.dagCells[i] = payload]
        ELSE /\ lastCall.result = IF op.type = "SetData"
                                  THEN "Cell not found" ELSE "Code not found"
             /\ dagBoc = before

\* SetData on a store whose two cells hold the same bytes, with a root and a
\* reference present: one cell has the new payload, the other keeps its own.
C28_Witness ==
    /\ lastCall.op = "processOpCode"
    /\ lastCall.opCode = [type |-> "SetData", cell |-> PayloadA, newData |-> PayloadB]
    /\ lastCall.before.dagCells = <<PayloadA, PayloadA>>
    /\ lastCall.before.roots # <<>>
    /\ lastCall.before.references # <<>>
    /\ dagBoc.dagCells = <<PayloadB, PayloadA>>

\* C29: no op type of the vocabulary is rejected as an unsupported operation.
Vocabulary ==
    {"Add", "Remove", "Update", "SetCode", "SetData", "SetLibraries",
     "SetVersion", "AddReference", "RemoveReference", "SetRoot", "Custom"}

C29_VocabularyHandled ==
    (lastCall.op = "processOpCode" /\ lastCall.opCode.type \in Vocabulary)
    => lastCall.result # "Unsupported operation"


\* ------------------------------------------------ claims: the key mapping
\* C30: the mapping compares keys by byte value: it never holds two entries
\* with byte-equal keys, also after clone and after deserialize(serialize),
\* and after updateStateMapping(key, value) the entry of that key holds
\* value.
C30_KeysCompareByValue ==
    /\ \A i \in 1..Len(dagBoc.stateMapping), j \in 1..Len(dagBoc.stateMapping) :
          dagBoc.stateMapping[i][1] = dagBoc.stateMapping[j][1] => i = j
    /\ lastCall.op = "updateStateMapping" =>
          \E i \in 1..Len(dagBoc.stateMapping) :
              dagBoc.stateMapping[i] = <<lastCall.key, lastCall.value>>


\* ------------------------------------- claims: HTLCWrapper, continued
\* C32: claim does not check the time lock: on a pending HTLC a claim with
\* the preimage of the hash lock succeeds and sets claimed, at any time,
\* also after timeLock has passed.
C32_ClaimIgnoresTimeLock ==
    (/\ lastCall.op = "claim"
     /\ ~htlc.before.claimed /\ ~htlc.before.refunded
     /\ Sha256(lastCall.preimage) = htlc.before.hashLock)
    => /\ lastCall.result = "ok"
       /\ htlc.h = [htlc.before EXCEPT !.claimed = TRUE]

\* A claim with the right preimage has succeeded after the time lock passed.
C32_Witness ==
    /\ lastCall.op = "claim"
    /\ lastCall.at > htlc.before.timeLock
    /\ ~htlc.before.claimed /\ ~htlc.before.refunded
    /\ Sha256(lastCall.preimage) = htlc.before.hashLock
    /\ lastCall.result = "ok"
    /\ htlc.h.claimed

\* C36: at most one of claimed and refunded is true; once either is true no
\* claim or refund changes any field; hashLock, timeLock, amount, sender and
\* recipient never change.
C36_ResolvedIsAbsorbing ==
    /\ ~(htlc.h.claimed /\ htlc.h.refunded)
    /\ (htlc.before.claimed \/ htlc.before.refunded) => htlc.h = htlc.before
    /\ htlc.h = [htlc.before EXCEPT !.claimed = htlc.h.claimed,
                                    !.refunded = htlc.h.refunded]

\* A refund past the time lock has been refused on a claimed HTLC.
C36_Witness ==
    /\ htlc.before.claimed
    /\ lastCall.op = "refund"
    /\ lastCall.currentTime > htlc.h.timeLock
    /\ lastCall.result = AlreadyResolved
    /\ htlc.h.claimed /\ ~htlc.h.refunded

\* ----------------------------- claims: PaymentChannelContract, continued
\* C35: over transfer calls with amount >= 0, both balances are >= 0 and
\* their sum is the sum of the opening balances.
C35_ValueConserved ==
    /\ pay.c.balances[1] >= 0
    /\ pay.c.balances[2] >= 0
    /\ pay.c.balances[1] + pay.c.balances[2] = 2 * pay.deposits[1]


\* ------------------------------ claims: StateContract, calls overlapping
\* C34: once all of a set of concurrently started updateState calls have
\* completed, merkleRoot is the hash of the contract's current snapshot and
\* nonce is the number of successful calls, in whatever order the hash
\* computations resolve.
C34_RootCurrentAfterOverlap ==
    (AllCompleted /\ upd.successes > 0)
    => /\ merkleRoot = STATEBOC_computeHash(stateBoc).value
       /\ nonce = upd.successes


\* ------------------------------------------ claims: the bytes that are hashed
\* C37: the bytes fed to the hash are an injective encoding of the snapshot:
\* two snapshots that differ in their cells, references or roots never give
\* the same hash input, in DAGBOC.computeHash and in STATEBOC.computeHash.
C37_HashInputInjective ==
    (/\ enc.hashA # Undefined /\ enc.hashB # Undefined
     /\ enc.a # enc.b)
    => enc.hashA.data # enc.hashB.data


\* --------------------------------------------- claims: produced snapshots
\* C31: clone, withDagCells, withReferences and withRoots return a new
\* object and leave the receiver's cells, references, roots, hash and
\* mapping unchanged, and no later processOpCode through the original or
\* through the copy changes the other.
C31_SnapshotIsolated ==
    /\ heap.ret # 0 => heap.ret # 1
    /\ lastCall.op \in {"clone", "withDagCells", "withReferences", "withRoots"}
       => heap.objs[1] = heap.before[1]
    /\ lastCall.op = "processOpCode"
       => LET other == IF lastCall.via = "original" THEN heap.ret ELSE 1 IN
          heap.objs[other] = heap.before[other]


\* ------------------------------------- claims: ChannelManager, continued
\* C33: over successive successful updateState calls the nonce reported in
\* the StateUpdate increases by exactly 1 per call, whatever the amount.
C33_ReportedNonceCounts ==
    (/\ lastCall.op = "updateState"
     /\ lastCall.result = "StateUpdate"
     /\ lastCall.previous # <<>>)
    => lastCall.update.nonce = lastCall.previous[1] + 1

\* C38: however concurrently started initialize calls interleave, the
\* channel is constructed at most once until destroy is called.
C38_ChannelConstructedOnce == mgr.built <= 1

\* C39: initialized is true only if channel is non-null; whenever channel is
\* null, getCurrentState, updateState, generateProof, verifyProof,
\* processTransaction and verifyFinalState fail with 'Channel not
\* initialized' without invoking the channel.
C39_GuardedByChannel ==
    /\ mgr.initialized => mgr.channel # Null
    /\ (/\ lastCall.op \in {"getCurrentState", "updateState", "generateProof",
                            "verifyProof", "verifyFinalState"}
        /\ lastCall.channelNull)
       => /\ lastCall.result = NotInitialized
          /\ ~lastCall.invoked

====
